---- MODULE Spec2Model ----
(***************************************************************************)
(* Lead qualification (LeadRouter, socialmedia.py) and nurture sequencing  *)
(* (NurtureSequence, nurture.py) of the martech cron agent, with the CRM   *)
(* client (pipedriveCRM.py), the social poster (socialmedia.py) and the    *)
(* content generator (contentGen.py) they call.                            *)
(*                                                                         *)
(* Real numbers (weights, scores, thresholds) are integers in units of     *)
(* 1/300: every weight used is a multiple of 0.1 and every threshold a     *)
(* multiple of 0.01, so the products and quotients of _score_response are  *)
(* exact.  Times are integers in units of 30 seconds.                      *)
(***************************************************************************)
EXTENDS Integers, Sequences, FiniteSets, TLC

VARIABLES
    qualification_rules,  \* LeadRouter.qualification_rules
    scored,               \* the latest _score_response call: <<>> before any,
                          \* then <<[response, score]>>
    rpc,                  \* process_responses: "idle", "loop", "returned", "raised"
    responses,            \* process_responses: the responses argument
    criteria,             \* process_responses: the qualification_criteria argument
    idx,                  \* process_responses: position of the for loop (1-based)
    qualified_leads,      \* process_responses: the local list qualified_leads
    returned,             \* what process_responses returned: <<>> nothing yet,
                          \* then <<the list>>
    route_trace,          \* router methods invoked, as <<position, method>>
    crm_contacts,         \* contacts created through crm_client.create_contact
    sdr_outbox,           \* notifications dispatched to the SDR team
    log,                  \* logger.error records, in order
    clock,                \* datetime.now(), in half-minutes
    organizations,        \* Pipedrive: the organizations posted, id = position
    persons,              \* Pipedrive: the persons posted
    deals,                \* Pipedrive: the deals posted
    activities,           \* Pipedrive: the activities posted
    notes,                \* Pipedrive: the notes posted
    posts,                \* social poster: the posts handed to _schedule_post
    industry_templates,   \* GPTContentGenerator.industry_templates
    task,                 \* the initiate_sequence calls, one per caller
    handler,              \* the handle_sequence_response call
    gen,                  \* the create_industry_posts call
    poster                \* the schedule_posts call

routerVars == <<rpc, responses, criteria, idx, qualified_leads, returned,
                route_trace, crm_contacts, sdr_outbox>>
scoreVars == <<scored>>
crmVars == <<organizations, persons, deals, activities, notes>>
nurtureVars == <<clock, crmVars, posts, industry_templates, task, handler>>
callVars == <<gen, poster>>
vars == <<qualification_rules, scoreVars, callVars, routerVars, log, nurtureVars>>

NoValue == "none"

\* the longest responses list given to process_responses
MaxResponses == 2

\* half-minutes that pass besides the monitoring windows
MaxTicks == 1

\* handle_sequence_response calls in one behaviour
MaxHandled == 1

\* create_industry_posts calls in one behaviour
MaxGenerated == 2

\* schedule_posts calls in one behaviour
MaxScheduled == 1

\* criteria.get('minimum_score', 0.7)
DefaultMinimumScore == 210

\* 1.0 in the unit of the model's real numbers
One == 3 * 100

\* a * b for two reals
Mul(a, b) == (a * b) \div One

Min(a, b) == IF a <= b THEN a ELSE b

Max(a, b) == IF a >= b THEN a ELSE b

\* timedelta(hours = n) and timedelta(days = n), in half-minutes
Hours(n) == n * 120

Days(n) == Hours(24 * n)

(***************************************************************************)
(* Data: Prospect, InterestLevel, Response                                 *)
(***************************************************************************)
InterestLevel == [NONE |-> 0, LOW |-> 1, MEDIUM |-> 2, HIGH |-> 3]

InterestLevelName(v) ==
    CASE v = 0 -> "NONE" [] v = 1 -> "LOW" [] v = 2 -> "MEDIUM" [] OTHER -> "HIGH"

Prospect(company_name, industry, employee_count) ==
    [company_name |-> company_name, industry |-> industry,
     employee_count |-> employee_count, decision_makers |-> <<>>,
     linkedin_url |-> "url", estimated_revenue |-> NoValue]

Response(prospect, interest_level, is_decision_maker) ==
    [prospect |-> prospect, platform |-> "linkedin", content |-> "reply",
     interest_level |-> interest_level, timestamp |-> 0,
     is_decision_maker |-> is_decision_maker]

(***************************************************************************)
(* LeadRouter: rules and scoring                                           *)
(***************************************************************************)
\* weights 0.4, 0.3, 0.3
_default_rules ==
    [weights |-> [interest_level |-> 120, company_size |-> 90,
                  decision_maker |-> 90],
     minimum_scores |-> [fast_track |-> 240, normal |-> 180, nurture |-> 120]]

\* mutant: the tier of small companies is missing
CompanySizeScoreTwoTiers(weights, employee_count) ==
    IF employee_count > 500 THEN Mul(weights.company_size, One)
    ELSE Mul(weights.company_size, 210)

\* the company-size branch of _score_response: 1.0, 0.7 or 0.3 of the weight
CompanySizeScore(weights, employee_count) ==
    IF employee_count > 500 THEN Mul(weights.company_size, One)
    ELSE IF employee_count > 100 THEN Mul(weights.company_size, 210)
    ELSE Mul(weights.company_size, 90)

SumScore(rules, response) ==
    LET weights == rules.weights
        s1 == (weights.interest_level * response.interest_level) \div 3
        s2 == s1 + CompanySizeScore(weights, response.prospect.employee_count)
    IN  IF response.is_decision_maker THEN s2 + weights.decision_maker ELSE s2

\* mutant: the clamp of the last line is dropped
UnclampedScore(rules, response) == SumScore(rules, response)

\* mutant: the interest level counts against the lead
InvertedInterestScore(rules, response) ==
    Min(SumScore(rules, [response EXCEPT !.interest_level = 3 - @]), One)

_score_response(rules, response) == Min(SumScore(rules, response), One)

_prepare_lead_data(response) ==
    [company |-> response.prospect.company_name,
     industry |-> response.prospect.industry,
     employee_count |-> response.prospect.employee_count,
     estimated_revenue |-> response.prospect.estimated_revenue,
     linkedin_url |-> response.prospect.linkedin_url,
     interest_level |-> InterestLevelName(response.interest_level),
     initial_response |-> response.content,
     platform |-> response.platform,
     response_time |-> response.timestamp,
     decision_maker |-> response.is_decision_maker]

(***************************************************************************)
(* LeadRouter.process_responses, one action per outcome of a loop round    *)
(***************************************************************************)
MinimumScore(c) ==
    IF "minimum_score" \in DOMAIN c THEN c.minimum_score ELSE DefaultMinimumScore

CurrentResponse == responses[idx]

CurrentScore == _score_response(qualification_rules, CurrentResponse)

\* socialmedia.py line 307
Qualifies(score, c) == score >= MinimumScore(c)

InLoop == rpc = "loop" /\ idx <= Len(responses)

ProcessResponses(rs, c) ==
    /\ rpc = "idle"
    /\ rpc' = "loop"
    /\ responses' = rs
    /\ criteria' = c
    /\ idx' = 1
    /\ qualified_leads' = <<>>
    /\ UNCHANGED <<returned, route_trace, crm_contacts, sdr_outbox>>
    /\ UNCHANGED <<qualification_rules, scoreVars, callVars, log, nurtureVars>>

\* score below the threshold: nothing but the next round
RouterDiscard ==
    /\ InLoop
    /\ ~Qualifies(CurrentScore, criteria)
    /\ idx' = idx + 1
    /\ UNCHANGED <<rpc, responses, criteria, qualified_leads, returned,
                   route_trace, crm_contacts, sdr_outbox>>
    /\ UNCHANGED <<qualification_rules, scoreVars, callVars, log, nurtureVars>>

\* _send_sdr_notification has an empty body: nothing is dispatched
_send_sdr_notification(outbox, lead_data, crm_id) == outbox

\* decision maker: _route_to_sdr creates the contact and notifies
RouterFastTrack ==
    /\ InLoop
    /\ Qualifies(CurrentScore, criteria)
    /\ CurrentResponse.is_decision_maker
    /\ LET lead_data == _prepare_lead_data(CurrentResponse)
       IN  /\ crm_contacts' = Append(crm_contacts, lead_data)
           /\ sdr_outbox' =
                _send_sdr_notification(sdr_outbox, lead_data, Len(crm_contacts) + 1)
           /\ route_trace' = route_trace \o
                <<(<<idx, "_route_to_sdr">>), (<<idx, "_send_sdr_notification">>)>>
           /\ qualified_leads' = Append(qualified_leads, lead_data)
    /\ idx' = idx + 1
    /\ UNCHANGED <<rpc, responses, criteria, returned>>
    /\ UNCHANGED <<qualification_rules, scoreVars, callVars, log, nurtureVars>>

\* mutant: the error is logged and swallowed, and the loop goes on
RouterFastTrackContactSwallowed ==
    /\ InLoop
    /\ Qualifies(CurrentScore, criteria)
    /\ CurrentResponse.is_decision_maker
    /\ route_trace' = Append(route_trace, <<idx, "_route_to_sdr">>)
    /\ log' = Append(log, "Error routing lead to SDR")
    /\ idx' = idx + 1
    /\ UNCHANGED <<rpc, responses, criteria, qualified_leads, returned,
                   crm_contacts, sdr_outbox>>
    /\ UNCHANGED <<qualification_rules, scoreVars, callVars, nurtureVars>>

\* crm_client.create_contact raises: logged in _route_to_sdr and re-raised
RouterFastTrackContactFails ==
    /\ InLoop
    /\ Qualifies(CurrentScore, criteria)
    /\ CurrentResponse.is_decision_maker
    /\ route_trace' = Append(route_trace, <<idx, "_route_to_sdr">>)
    /\ log' = Append(log, "Error routing lead to SDR")
    /\ rpc' = "raised"
    /\ UNCHANGED <<responses, criteria, idx, qualified_leads, returned,
                   crm_contacts, sdr_outbox>>
    /\ UNCHANGED <<qualification_rules, scoreVars, callVars, nurtureVars>>

\* the contact is created but its reply carries no 'id': crm_contact['id'] raises
RouterFastTrackReplyFails ==
    /\ InLoop
    /\ Qualifies(CurrentScore, criteria)
    /\ CurrentResponse.is_decision_maker
    /\ crm_contacts' = Append(crm_contacts, _prepare_lead_data(CurrentResponse))
    /\ route_trace' = Append(route_trace, <<idx, "_route_to_sdr">>)
    /\ log' = Append(log, "Error routing lead to SDR")
    /\ rpc' = "raised"
    /\ UNCHANGED <<responses, criteria, idx, qualified_leads, returned, sdr_outbox>>
    /\ UNCHANGED <<qualification_rules, scoreVars, callVars, nurtureVars>>

\* _initiate_nurture_sequence has an empty body: no sequence is started
_initiate_nurture_sequence(sequences, lead_data) == sequences

\* not a decision maker: the lead goes to _initiate_nurture_sequence
RouterNurture ==
    /\ InLoop
    /\ Qualifies(CurrentScore, criteria)
    /\ ~CurrentResponse.is_decision_maker
    /\ route_trace' = Append(route_trace, <<idx, "_initiate_nurture_sequence">>)
    /\ qualified_leads' =
         Append(qualified_leads, _prepare_lead_data(CurrentResponse))
    /\ idx' = idx + 1
    /\ task' = _initiate_nurture_sequence(task, _prepare_lead_data(CurrentResponse))
    /\ UNCHANGED <<rpc, responses, criteria, returned, crm_contacts, sdr_outbox>>
    /\ UNCHANGED <<qualification_rules, scoreVars, callVars, log>>
    /\ UNCHANGED <<clock, crmVars, posts, industry_templates, handler>>

RouterReturn ==
    /\ rpc = "loop"
    /\ idx > Len(responses)
    /\ rpc' = "returned"
    /\ returned' = <<qualified_leads>>
    /\ UNCHANGED <<responses, criteria, idx, qualified_leads, route_trace,
                   crm_contacts, sdr_outbox>>
    /\ UNCHANGED <<qualification_rules, scoreVars, callVars, log, nurtureVars>>

(***************************************************************************)
(* PipedriveClient: the payload each method posts                          *)
(***************************************************************************)
\* dict.get(k, default)
Get(d, k, default) == IF k \in DOMAIN d THEN d[k] ELSE default

\* {**lead_data, 'organization_id': org['id']}
WithOrganization(lead_data, org_id) ==
    [k \in DOMAIN lead_data \cup {"organization_id"} |->
        IF k = "organization_id" THEN org_id ELSE lead_data[k]]

create_organization(company_data) ==
    [name |-> company_data.company_name,
     visible_to |-> 3,
     industry |-> Get(company_data, "industry", ""),
     employee_count |-> Get(company_data, "employee_count", 0),
     linkedin_company_url |-> Get(company_data, "linkedin_url", "")]

create_person(lead_data) ==
    [name |-> Get(lead_data, "contact_name", "Unknown"),
     email |-> lead_data.email,
     phone |-> Get(lead_data, "phone", ""),
     org_id |-> Get(lead_data, "organization_id", 0),
     visible_to |-> 3,
     linkedin_url |-> Get(lead_data, "linkedin_url", ""),
     interest_level |-> Get(lead_data, "interest_level", ""),
     source_platform |-> Get(lead_data, "platform", "")]

\* the first range of employee_multiplier that holds the count, else 1
EmployeeMultiplier(n) ==
    IF n >= 1 /\ n < 50 THEN 1
    ELSE IF n >= 50 /\ n < 200 THEN 2
    ELSE IF n >= 200 /\ n < 500 THEN 3
    ELSE IF n >= 500 /\ n < 1000 THEN 4
    ELSE 1

\* industry_multiplier, in tenths
IndustryMultiplier(industry) ==
    CASE industry = "retail" -> 12
      [] industry = "hospitality" -> 13
      [] industry = "healthcare" -> 11
      [] industry = "professional_services" -> 9
      [] OTHER -> 10

_calculate_deal_value(lead_data) ==
    (5000 * EmployeeMultiplier(Get(lead_data, "employee_count", 0))
          * IndustryMultiplier(Get(lead_data, "industry", ""))) \div 10

create_deal(lead_data, person_id, org_id) ==
    [title |-> <<"Payment Processing Solution", lead_data.company_name>>,
     person_id |-> person_id,
     org_id |-> org_id,
     stage_id |-> 1,
     visible_to |-> 3,
     expected_value |-> _calculate_deal_value(lead_data),
     lead_source |-> Get(lead_data, "platform", ""),
     initial_interest |-> Get(lead_data, "interest_level", ""),
     response_content |-> Get(lead_data, "initial_response", "")]

add_note(deal_id, content) ==
    [deal_id |-> deal_id, content |-> content, pinned_to_deal_flag |-> 1]

\* due_date.strftime('%Y-%m-%d') is the day, strftime('%H:%M') the minute of the day
create_activity(deal_id, activity_type, subject, due_date) ==
    [deal_id |-> deal_id, subject |-> subject, type |-> activity_type,
     due_date |-> due_date \div Days(1),
     due_time |-> (due_date % Days(1)) \div 2,
     duration |-> "00:30"]

(***************************************************************************)
(* GPTContentGenerator: the templates set up by __init__                   *)
(***************************************************************************)
IndustryTemplates ==
    [retail |->
        [pain_points |-> <<"High transaction fees eating into margins",
                           "Complex pricing structures",
                           "Long settlement times",
                           "Integration difficulties with POS systems">>,
         tone |-> "professional yet approachable",
         content_length |-> [linkedin |-> 1200, twitter |-> 280]],
     hospitality |->
        [pain_points |-> <<"Customer card decline rates",
                           "International payment processing fees",
                           "Integration with booking systems",
                           "Seasonal cash flow management">>,
         tone |-> "friendly and solution-focused",
         content_length |-> [linkedin |-> 1000, twitter |-> 280]]]

\* str.lower(), on the industries used
Lower(industry) == IF industry = "Retail" THEN "retail" ELSE industry

(***************************************************************************)
(* NurtureSequence                                                         *)
(***************************************************************************)
Step(delay, type, template) ==
    [delay |-> delay, type |-> type, template |-> template]

sequence_steps ==
    [high_intent |->
        <<Step(Days(1), "personalized_content", "value_proposition"),
          Step(Days(3), "case_study", "industry_specific"),
          Step(Days(7), "demo_invitation", "product_demo")>>,
     medium_intent |->
        <<Step(Days(2), "educational_content", "industry_insights"),
          Step(Days(5), "social_proof", "testimonials"),
          Step(Days(10), "value_proposition", "cost_savings")>>,
     low_intent |->
        <<Step(Days(3), "thought_leadership", "industry_trends"),
          Step(Days(7), "educational_content", "best_practices"),
          Step(Days(14), "soft_pitch", "discovery_invitation")>>]

\* mutant: educational content is no longer delivered
DeliveredTypesWithoutEducational == {"personalized_content", "case_study"}

\* nurture.py line 130
DeliveredTypes == {"personalized_content", "case_study", "educational_content"}

Tasks == {"a", "b"}

IdleTask ==
    [pc |-> "idle", lead_data |-> <<>>, sequence_type |-> "", org_id |-> 0,
     person_id |-> 0, deal_id |-> 0, current_time |-> 0, step |-> 0,
     content |-> <<>>, end_time |-> 0, calls |-> <<>>, result |-> <<>>]

CurrentStep(tk) == sequence_steps[tk.sequence_type][tk.step]

\* mutant: the execution time is taken from the clock at every step
ExecutionTimeFromNow(tk) == clock + CurrentStep(tk).delay

\* execution_time = current_time + step['delay']
ExecutionTime(tk) == tk.current_time + CurrentStep(tk).delay

\* one more external call in the task's record of calls
Called(tk, outcome) == Append(tk.calls, <<tk.pc, tk.step, outcome>>)

ExternalCalls ==
    {"create_organization", "create_person", "create_deal", "create_activity",
     "generate_content", "schedule_posts", "monitor_responses", "add_note"}

\* template = self.industry_templates.get(industry.lower())
HasTemplate(industry) == Lower(industry) \in DOMAIN industry_templates

\* whether the call the task is at can return without raising
CanReturn(tk) ==
    CASE tk.pc = "create_organization" -> "company_name" \in DOMAIN tk.lead_data
      [] tk.pc = "create_person" -> "email" \in DOMAIN tk.lead_data
      [] tk.pc = "create_deal" ->
            /\ "company_name" \in DOMAIN tk.lead_data
            /\ tk.sequence_type \in DOMAIN sequence_steps
      [] tk.pc = "generate_content" ->
            /\ "industry" \in DOMAIN tk.lead_data
            /\ HasTemplate(tk.lead_data.industry)
      [] OTHER -> TRUE

\* what the loggers record when the call the task is at raises
FailureLog(tk) ==
    CASE tk.pc \in {"create_organization", "create_person", "create_deal"} ->
            IF CanReturn(tk)
            THEN <<"Pipedrive API error", "Error initiating nurture sequence">>
            ELSE <<"Error initiating nurture sequence">>
      [] tk.pc \in {"create_activity", "add_note"} ->
            <<"Pipedrive API error", "Error initiating nurture sequence">>
      [] tk.pc = "generate_content" ->
            IF "industry" \notin DOMAIN tk.lead_data
            THEN <<"Error initiating nurture sequence">>
            ELSE IF CanReturn(tk)
            THEN <<"Error generating content for linkedin",
                   "Error generating content",
                   "Error initiating nurture sequence">>
            ELSE <<"Error generating content", "Error initiating nurture sequence">>
      [] OTHER ->
            <<"Error scheduling posts", "Error initiating nurture sequence">>

At(t, pc) == task[t].pc = pc /\ CanReturn(task[t])

InitiateSequence(t, lead_data, sequence_type) ==
    /\ task[t].pc = "idle"
    /\ task' = [task EXCEPT ![t] =
                  [@ EXCEPT !.pc = "create_organization",
                            !.lead_data = lead_data,
                            !.sequence_type = sequence_type]]
    /\ UNCHANGED <<clock, crmVars, posts, industry_templates, handler>>
    /\ UNCHANGED <<qualification_rules, scoreVars, callVars, routerVars, log>>

CreateOrganization(t) ==
    /\ At(t, "create_organization")
    /\ organizations' = Append(organizations, create_organization(task[t].lead_data))
    /\ LET tk == task[t]
       IN  task' = [task EXCEPT ![t] =
                      [tk EXCEPT !.pc = "create_person",
                                 !.org_id = Len(organizations) + 1,
                                 !.calls = Called(tk, "ok")]]
    /\ UNCHANGED <<clock, persons, deals, activities, notes, posts,
                   industry_templates, handler>>
    /\ UNCHANGED <<qualification_rules, scoreVars, callVars, routerVars, log>>

CreatePerson(t) ==
    /\ At(t, "create_person")
    /\ persons' = Append(persons,
          create_person(WithOrganization(task[t].lead_data, task[t].org_id)))
    /\ LET tk == task[t]
       IN  task' = [task EXCEPT ![t] =
                      [tk EXCEPT !.pc = "create_deal",
                                 !.person_id = Len(persons) + 1,
                                 !.calls = Called(tk, "ok")]]
    /\ UNCHANGED <<clock, organizations, deals, activities, notes, posts,
                   industry_templates, handler>>
    /\ UNCHANGED <<qualification_rules, scoreVars, callVars, routerVars, log>>

\* the deal is created, then the steps are looked up and the clock is read once
CreateDeal(t) ==
    /\ At(t, "create_deal")
    /\ deals' = Append(deals,
          create_deal(task[t].lead_data, task[t].person_id, task[t].org_id))
    /\ LET tk == task[t]
       IN  task' = [task EXCEPT ![t] =
                      [tk EXCEPT !.pc = "create_activity",
                                 !.deal_id = Len(deals) + 1,
                                 !.current_time = clock,
                                 !.step = 1,
                                 !.calls = Called(tk, "ok")]]
    /\ UNCHANGED <<clock, organizations, persons, activities, notes, posts,
                   industry_templates, handler>>
    /\ UNCHANGED <<qualification_rules, scoreVars, callVars, routerVars, log>>

\* mutant: the deal of the sequence is kept in one attribute of the
\* NurtureSequence object, which the latest call overwrites
CreateActivityOfLatestDeal(t) ==
    /\ At(t, "create_activity")
    /\ LET tk == task[t]
       IN  /\ activities' = Append(activities,
                 create_activity(Len(deals), CurrentStep(tk).type,
                                 <<"Nurture Step", CurrentStep(tk).type>>,
                                 ExecutionTime(tk)))
           /\ task' = [task EXCEPT ![t] =
                         [tk EXCEPT !.pc = "generate_content",
                                    !.calls = Called(tk, "ok")]]
    /\ UNCHANGED <<clock, organizations, persons, deals, notes, posts,
                   industry_templates, handler>>
    /\ UNCHANGED <<qualification_rules, scoreVars, callVars, routerVars, log>>

\* _schedule_step: the activity that tracks the step
CreateActivity(t) ==
    /\ At(t, "create_activity")
    /\ LET tk == task[t]
       IN  /\ activities' = Append(activities,
                 create_activity(tk.deal_id, CurrentStep(tk).type,
                                 <<"Nurture Step", CurrentStep(tk).type>>,
                                 ExecutionTime(tk)))
           /\ task' = [task EXCEPT ![t] =
                         [tk EXCEPT !.pc = "generate_content",
                                    !.calls = Called(tk, "ok")]]
    /\ UNCHANGED <<clock, organizations, persons, deals, notes, posts,
                   industry_templates, handler>>
    /\ UNCHANGED <<qualification_rules, scoreVars, callVars, routerVars, log>>

\* create_industry_posts(industry, [], "30% cost reduction", ['linkedin'], 1):
\* the pain points handed to the text generation are the template's own
create_industry_posts(industry, platform) ==
    [industry |-> industry, platform |-> platform,
     pain_points |-> industry_templates[Lower(industry)].pain_points]

\* mutant: every step is delivered through the social poster
AlwaysDeliver(step) == "schedule_posts"

\* _schedule_step: where the step goes once its content is there
AfterContent(step) ==
    IF step.type \in DeliveredTypes THEN "schedule_posts" ELSE "add_note"

\* _generate_step_content returns content['linkedin'][0]
GenerateContent(t) ==
    /\ At(t, "generate_content")
    /\ LET tk == task[t]
       IN  task' = [task EXCEPT ![t] =
                      [tk EXCEPT !.pc = AfterContent(CurrentStep(tk)),
                                 !.content =
                                    <<create_industry_posts(tk.lead_data.industry,
                                                            "linkedin")>>,
                                 !.calls = Called(tk, "ok")]]
    /\ UNCHANGED <<clock, crmVars, posts, industry_templates, handler>>
    /\ UNCHANGED <<qualification_rules, scoreVars, callVars, routerVars, log>>

\* the schedule of n posts on a platform
_generate_optimal_schedule(n, platform) ==
    [i \in 1..n |-> [platform |-> platform, slot |-> i]]

\* zip(platform_content, schedule_times), each pair as _schedule_post gets it;
\* deal_id tells the posts of the sequences apart (0: a direct call)
Zipped(platform, platform_content, schedule_times, deal_id) ==
    [i \in 1..Min(Len(platform_content), Len(schedule_times)) |->
        [platform |-> platform, content |-> platform_content[i],
         schedule_time |-> schedule_times[i], deal_id |-> deal_id]]

\* schedule_posts({'linkedin': [content]}, ['linkedin'], schedule_times =
\* [execution_time]): one _schedule_post, then, monitoring being True by
\* default, _monitor_responses, which sets end_time = datetime.now() + 48 hours
SchedulePosts(t) ==
    /\ At(t, "schedule_posts")
    /\ LET tk == task[t]
       IN  /\ posts' = posts \o Zipped("linkedin", <<tk.content[1]>>,
                                         <<ExecutionTime(tk)>>, tk.deal_id)
           /\ task' = [task EXCEPT ![t] =
                         [tk EXCEPT !.pc = "monitor_responses",
                                    !.end_time = clock + Hours(48),
                                    !.calls = Called(tk, "ok")]]
    /\ UNCHANGED <<clock, crmVars, industry_templates, handler>>
    /\ UNCHANGED <<qualification_rules, scoreVars, callVars, routerVars, log>>

\* _monitor_responses polls, sleeping 300 s a round, until end_time has passed
MonitorResponses(t) ==
    /\ At(t, "monitor_responses")
    /\ clock' = Max(clock, task[t].end_time)
    /\ LET tk == task[t]
       IN  task' = [task EXCEPT ![t] =
                      [tk EXCEPT !.pc = "add_note", !.calls = Called(tk, "ok")]]
    /\ UNCHANGED <<crmVars, posts, industry_templates, handler>>
    /\ UNCHANGED <<qualification_rules, scoreVars, callVars, routerVars, log>>

\* _schedule_step: the note; then the next step, or return deal['id']
AddNote(t) ==
    /\ At(t, "add_note")
    /\ LET tk == task[t]
           last == tk.step = Len(sequence_steps[tk.sequence_type])
       IN  /\ notes' = Append(notes,
                 add_note(tk.deal_id,
                          <<"Scheduled", CurrentStep(tk).type, ExecutionTime(tk)>>))
           /\ task' = [task EXCEPT ![t] =
                         [tk EXCEPT !.pc = IF last THEN "returned"
                                           ELSE "create_activity",
                                    !.step = IF last THEN tk.step ELSE tk.step + 1,
                                    !.result = IF last THEN <<tk.deal_id>> ELSE <<>>,
                                    !.calls = Called(tk, "ok")]]
    /\ UNCHANGED <<clock, organizations, persons, deals, activities, posts,
                   industry_templates, handler>>
    /\ UNCHANGED <<qualification_rules, scoreVars, callVars, routerVars, log>>

\* mutant: the handler undoes the organization the call had created
CallFailsRollingBack(t) ==
    /\ task[t].pc \in ExternalCalls
    /\ log' = log \o FailureLog(task[t])
    /\ organizations' =
         IF task[t].org_id > 0
         THEN SubSeq(organizations, 1, Len(organizations) - 1)
         ELSE organizations
    /\ LET tk == task[t]
       IN  task' = [task EXCEPT ![t] =
                      [tk EXCEPT !.pc = "raised", !.calls = Called(tk, "raised")]]
    /\ UNCHANGED <<clock, persons, deals, activities, notes, posts,
                   industry_templates, handler>>
    /\ UNCHANGED <<qualification_rules, scoreVars, callVars, routerVars>>

\* the call the task is at raises: logged, re-raised, nothing else happens
CallFails(t) ==
    /\ task[t].pc \in ExternalCalls
    /\ log' = log \o FailureLog(task[t])
    /\ LET tk == task[t]
       IN  task' = [task EXCEPT ![t] =
                      [tk EXCEPT !.pc = "raised", !.calls = Called(tk, "raised")]]
    /\ UNCHANGED <<clock, crmVars, posts, industry_templates, handler>>
    /\ UNCHANGED <<qualification_rules, scoreVars, callVars, routerVars>>

(***************************************************************************)
(* NurtureSequence.handle_sequence_response                                *)
(***************************************************************************)
IdleHandler ==
    [pc |-> "idle", deal_id |-> 0, response_type |-> "", response_content |-> "",
     called_at |-> 0, calls |-> <<>>, count |-> 0]

\* mutant: the review is due like the follow-up, after 24 hours
ResponseActivityOneDay(deal_id, response_type, now) ==
    IF response_type = "positive"
    THEN create_activity(deal_id, "follow_up",
            <<"Positive Sequence Response - Priority Follow-up">>, now + Hours(24))
    ELSE create_activity(deal_id, "review",
            <<"Review Negative Sequence Response">>, now + Hours(24))

\* nurture.py lines 179 to 194: the activity of a positive or negative response
ResponseActivity(deal_id, response_type, now) ==
    IF response_type = "positive"
    THEN create_activity(deal_id, "follow_up",
            <<"Positive Sequence Response - Priority Follow-up">>, now + Hours(24))
    ELSE create_activity(deal_id, "review",
            <<"Review Negative Sequence Response">>, now + Days(2))

HandleSequenceResponse(deal_id, response_type, response_content) ==
    /\ handler.pc \in {"idle", "returned", "raised"}
    /\ handler.count < MaxHandled
    /\ handler' = [pc |-> "add_note", deal_id |-> deal_id,
                   response_type |-> response_type,
                   response_content |-> response_content,
                   called_at |-> clock, calls |-> <<>>,
                   count |-> handler.count + 1]
    /\ UNCHANGED <<clock, crmVars, posts, industry_templates, task>>
    /\ UNCHANGED <<qualification_rules, scoreVars, callVars, routerVars, log>>

\* mutant: every response type goes on to create an activity
HandlerAddNoteAlwaysActivity ==
    /\ handler.pc = "add_note"
    /\ notes' = Append(notes,
          add_note(handler.deal_id,
                   <<"Sequence Response", handler.response_type,
                     handler.response_content>>))
    /\ handler' = [handler EXCEPT
                     !.pc = "create_activity",
                     !.calls = Append(handler.calls, <<"add_note", "ok">>)]
    /\ UNCHANGED <<clock, organizations, persons, deals, activities, posts,
                   industry_templates, task>>
    /\ UNCHANGED <<qualification_rules, scoreVars, callVars, routerVars, log>>

\* the note with the raw response comes first
HandlerAddNote ==
    /\ handler.pc = "add_note"
    /\ notes' = Append(notes,
          add_note(handler.deal_id,
                   <<"Sequence Response", handler.response_type,
                     handler.response_content>>))
    /\ handler' = [handler EXCEPT
                     !.pc = IF handler.response_type \in {"positive", "negative"}
                            THEN "create_activity" ELSE "returned",
                     !.calls = Append(handler.calls, <<"add_note", "ok">>)]
    /\ UNCHANGED <<clock, organizations, persons, deals, activities, posts,
                   industry_templates, task>>
    /\ UNCHANGED <<qualification_rules, scoreVars, callVars, routerVars, log>>

HandlerCreateActivity ==
    /\ handler.pc = "create_activity"
    /\ activities' = Append(activities,
          ResponseActivity(handler.deal_id, handler.response_type, clock))
    /\ handler' = [handler EXCEPT
                     !.pc = "returned",
                     !.calls = Append(handler.calls, <<"create_activity", "ok">>)]
    /\ UNCHANGED <<clock, organizations, persons, deals, notes, posts,
                   industry_templates, task>>
    /\ UNCHANGED <<qualification_rules, scoreVars, callVars, routerVars, log>>

HandlerCallFails ==
    /\ handler.pc \in {"add_note", "create_activity"}
    /\ log' = log \o <<"Pipedrive API error", "Error handling sequence response">>
    /\ handler' = [handler EXCEPT
                     !.pc = "raised",
                     !.calls = Append(handler.calls, <<handler.pc, "raised">>)]
    /\ UNCHANGED <<clock, crmVars, posts, industry_templates, task>>
    /\ UNCHANGED <<qualification_rules, scoreVars, callVars, routerVars>>

\* half a minute passes
Tick ==
    /\ clock % Days(1) < MaxTicks
    /\ clock' = clock + 1
    /\ UNCHANGED <<crmVars, posts, industry_templates, task, handler>>
    /\ UNCHANGED <<qualification_rules, scoreVars, callVars, routerVars, log>>

(***************************************************************************)
(* GPTContentGenerator.create_industry_posts.  A text is the sequence of   *)
(* its characters.                                                         *)
(***************************************************************************)
IsSpace(c) == c \in {" ", "\n", "\t"}

RECURSIVE Flatten(_, _, _)
\* pieces[lo] \o ... \o pieces[hi]
Flatten(pieces, lo, hi) ==
    IF lo > hi THEN <<>>
    ELSE IF lo = hi THEN pieces[lo]
    ELSE Flatten(pieces, lo, (lo + hi) \div 2)
            \o Flatten(pieces, (lo + hi) \div 2 + 1, hi)

\* ' '.join(post.split()): the white space goes, and one blank is put before
\* every word but the first
Normalize(post) ==
    LET StartsLaterWord(i) ==
            /\ i > 1
            /\ IsSpace(post[i - 1])
            /\ \E j \in 1..(i - 1) : ~IsSpace(post[j])
        pieces == [i \in 1..Len(post) |->
                      IF IsSpace(post[i]) THEN <<>>
                      ELSE IF StartsLaterWord(i) THEN <<" ", post[i]>>
                      ELSE <<post[i]>>]
    IN  Flatten(pieces, 1, Len(post))

\* Twitter's character limit, line 186
TwitterLimit == 280

\* processed[:277] + "..."
Truncate(processed) ==
    SubSeq(processed, 1, Min(277, Len(processed))) \o <<".", ".", ".">>

Http == <<"h", "t", "t", "p">>

PlatformChars ==
    [linkedin |-> <<"l", "i", "n", "k", "e", "d", "i", "n">>,
     twitter |-> <<"t", "w", "i", "t", "t", "e", "r">>]

\* f"?utm_source={platform}&utm_medium=social&utm_campaign=payment_processing"
UtmParams(platform) ==
    <<"?", "u", "t", "m", "_", "s", "o", "u", "r", "c", "e", "=">>
    \o PlatformChars[platform]
    \o <<"&", "u", "t", "m", "_", "m", "e", "d", "i", "u", "m", "=", "s",
       "o", "c", "i", "a", "l">>
    \o <<"&", "u", "t", "m", "_", "c", "a", "m", "p", "a", "i", "g", "n",
       "=", "p", "a", "y", "m", "e", "n", "t", "_", "p", "r", "o", "c", "e",
       "s", "s", "i", "n", "g">>

IsHttpAt(post, i) == i + 3 <= Len(post) /\ SubSeq(post, i, i + 3) = Http

\* post.replace("http", new): two occurrences of "http" cannot overlap, so
\* every occurrence is replaced
Replace(post, new) ==
    LET InsideHttp(i) == \E d \in 1..3 : i - d >= 1 /\ IsHttpAt(post, i - d)
        pieces == [i \in 1..Len(post) |->
                      IF IsHttpAt(post, i) THEN new
                      ELSE IF InsideHttp(i) THEN <<>>
                      ELSE <<post[i]>>]
    IN  Flatten(pieces, 1, Len(post))

_add_tracking_parameters(post, platform) ==
    IF \E i \in 1..Len(post) : IsHttpAt(post, i)
    THEN Replace(post, Http \o UtmParams(platform))
    ELSE post

\* the loop body of _post_process_content
PostProcess(post, platform) ==
    LET processed == Normalize(post)
        limited == IF platform = "twitter" /\ Len(processed) > TwitterLimit
                   THEN Truncate(processed) ELSE processed
    IN  _add_tracking_parameters(limited, platform)

_post_process_content(texts, platform) ==
    [i \in 1..Len(texts) |-> PostProcess(texts[i], platform)]

IdleGenerator ==
    [pc |-> "idle", industry |-> "", custom_pain_points |-> <<>>,
     platforms |-> <<>>, post_count |-> 0, p |-> 0, pain_points |-> <<>>,
     generated_content |-> <<>>, result |-> <<>>, count |-> 0]

\* whether the template has a content_length for the platform
HasLength(industry, platform) ==
    platform \in DOMAIN industry_templates[Lower(industry)].content_length

\* lines 72 to 90, up to the first request to the text generation: the template
\* is looked up, the custom pain points are appended to the template's own list
\* (all_pain_points is that list, not a copy), and the prompt of the first
\* platform is built from it
CreateIndustryPosts(industry, custom_pain_points, platforms, post_count) ==
    /\ gen.pc \in {"idle", "returned", "raised"}
    /\ gen.count < MaxGenerated
    /\ LET template_found == HasTemplate(industry)
           all_pain_points ==
               industry_templates[Lower(industry)].pain_points \o custom_pain_points
           ok == template_found /\ HasLength(industry, platforms[1])
       IN  /\ industry_templates' =
                IF template_found
                THEN [industry_templates EXCEPT
                         ![Lower(industry)].pain_points = all_pain_points]
                ELSE industry_templates
           /\ gen' = [pc |-> IF ok THEN "acreate" ELSE "raised",
                      industry |-> industry,
                      custom_pain_points |-> custom_pain_points,
                      platforms |-> platforms,
                      post_count |-> post_count,
                      p |-> 1,
                      pain_points |-> IF ok THEN all_pain_points ELSE <<>>,
                      generated_content |-> <<>>,
                      result |-> <<>>,
                      count |-> gen.count + 1]
           /\ log' = IF ok THEN log ELSE Append(log, "Error generating content")
    /\ UNCHANGED <<clock, crmVars, posts, task, handler, poster>>
    /\ UNCHANGED <<qualification_rules, scoreVars, routerVars>>

\* the text generation returns its choices: they are post-processed and stored
\* under the platform; then the next platform's prompt is built, or the
\* mapping is returned
GeneratePlatformSpecificContent(choices) ==
    /\ gen.pc = "acreate"
    /\ Len(choices) = gen.post_count
    /\ LET platform == gen.platforms[gen.p]
           generated_content ==
               Append(gen.generated_content,
                      [platform |-> platform,
                       posts |-> _post_process_content(choices, platform)])
           last == gen.p = Len(gen.platforms)
           ok == last \/ HasLength(gen.industry, gen.platforms[gen.p + 1])
       IN  /\ gen' = [gen EXCEPT
                        !.pc = IF ~ok THEN "raised"
                               ELSE IF last THEN "returned" ELSE "acreate",
                        !.p = IF last THEN gen.p ELSE gen.p + 1,
                        !.pain_points =
                            industry_templates[Lower(gen.industry)].pain_points,
                        !.generated_content = generated_content,
                        !.result = IF last THEN <<generated_content>> ELSE <<>>]
           /\ log' = IF ok THEN log ELSE Append(log, "Error generating content")
    /\ UNCHANGED <<clock, crmVars, posts, industry_templates, task, handler, poster>>
    /\ UNCHANGED <<qualification_rules, scoreVars, routerVars>>

\* f"Error generating content for {platform}: ..."
PlatformErrorLog(platform) ==
    IF platform = "linkedin" THEN "Error generating content for linkedin"
    ELSE "Error generating content for twitter"

\* the text generation raises: logged in _generate_platform_specific_content
\* and in create_industry_posts, and re-raised
GenerationFails ==
    /\ gen.pc = "acreate"
    /\ log' = log \o <<PlatformErrorLog(gen.platforms[gen.p]),
                       "Error generating content">>
    /\ gen' = [gen EXCEPT !.pc = "raised"]
    /\ UNCHANGED <<clock, crmVars, posts, industry_templates, task, handler, poster>>
    /\ UNCHANGED <<qualification_rules, scoreVars, routerVars>>

(***************************************************************************)
(* SocialMediaPoster.schedule_posts                                        *)
(***************************************************************************)
IdlePoster ==
    [pc |-> "idle", content |-> <<>>, platforms |-> <<>>, monitoring |-> FALSE,
     given_times |-> <<>>, schedule_times |-> <<>>, p |-> 0, i |-> 0,
     posted_content |-> <<>>, end_time |-> 0, result |-> <<>>, count |-> 0]

RECURSIVE NextPlatform(_, _, _)
\* the first platform from position p on that has content: lines 203 to 207
NextPlatform(content, platforms, p) ==
    IF p > Len(platforms) THEN p
    ELSE IF Len(Get(content, platforms[p], <<>>)) = 0
    THEN NextPlatform(content, platforms, p + 1)
    ELSE p

\* lines 210 to 214: a schedule is generated only while schedule_times is
\* empty, and then kept in schedule_times
ScheduleFor(content, platforms, p, schedule_times) ==
    IF p <= Len(platforms) /\ Len(schedule_times) = 0
    THEN _generate_optimal_schedule(Len(content[platforms[p]]), platforms[p])
    ELSE schedule_times

\* the state of the call at the next piece to post from platform p on, or at
\* the end of the loop: monitoring, or return []
PosterAt(ps, p) ==
    LET q == NextPlatform(ps.content, ps.platforms, p)
        done == q > Len(ps.platforms)
    IN  [ps EXCEPT
            !.p = q,
            !.i = 1,
            !.schedule_times = ScheduleFor(ps.content, ps.platforms, q, @),
            !.pc = IF ~done THEN "schedule_post"
                   ELSE IF ps.monitoring THEN "monitor_responses"
                   ELSE "returned",
            !.end_time = IF done /\ ps.monitoring THEN clock + Hours(48) ELSE 0,
            !.result = IF done /\ ~ps.monitoring THEN <<(<<>>)>> ELSE <<>>]

SchedulePostsCall(content, platforms, monitoring, schedule_times) ==
    /\ poster.pc \in {"idle", "returned", "raised"}
    /\ poster.count < MaxScheduled
    /\ poster' = PosterAt([pc |-> "schedule_post", content |-> content,
                           platforms |-> platforms, monitoring |-> monitoring,
                           given_times |-> schedule_times,
                           schedule_times |-> schedule_times,
                           p |-> 1, i |-> 1, posted_content |-> <<>>,
                           end_time |-> 0, result |-> <<>>,
                           count |-> poster.count + 1], 1)
    /\ UNCHANGED <<gen, log, nurtureVars>>
    /\ UNCHANGED <<qualification_rules, scoreVars, routerVars>>

\* one round of the loop of line 217: _schedule_post returns a post id
SchedulePost ==
    /\ poster.pc = "schedule_post"
    /\ LET platform == poster.platforms[poster.p]
           zipped == Zipped(platform, poster.content[platform],
                            poster.schedule_times, 0)
           posted == [poster EXCEPT
                        !.posted_content = Append(@, zipped[poster.i]),
                        !.i = @ + 1]
       IN  /\ posts' = Append(posts, zipped[poster.i])
           /\ poster' = IF poster.i < Len(zipped) THEN posted
                         ELSE PosterAt(posted, poster.p + 1)
    /\ UNCHANGED <<clock, crmVars, industry_templates, task, handler, gen, log>>
    /\ UNCHANGED <<qualification_rules, scoreVars, routerVars>>

\* _monitor_responses polls until end_time has passed and returns what it
\* collected
PosterMonitorResponses(collected) ==
    /\ poster.pc = "monitor_responses"
    /\ clock' = Max(clock, poster.end_time)
    /\ poster' = [poster EXCEPT !.pc = "returned", !.result = <<collected>>]
    /\ UNCHANGED <<crmVars, posts, industry_templates, task, handler, gen, log>>
    /\ UNCHANGED <<qualification_rules, scoreVars, routerVars>>

\* _schedule_post or the polling raises: logged by schedule_posts, re-raised
PosterCallFails ==
    /\ poster.pc \in {"schedule_post", "monitor_responses"}
    /\ log' = Append(log, "Error scheduling posts")
    /\ poster' = [poster EXCEPT !.pc = "raised"]
    /\ UNCHANGED <<gen, nurtureVars>>
    /\ UNCHANGED <<qualification_rules, scoreVars, routerVars>>

(***************************************************************************)
(* A direct call of _score_response                                        *)
(***************************************************************************)
ScoreResponse(r) ==
    /\ scored' = <<[response |-> r,
                    score |-> _score_response(qualification_rules, r)]>>
    /\ UNCHANGED <<qualification_rules, callVars, routerVars, log, nurtureVars>>

(***************************************************************************)
(* Inputs                                                                  *)
(***************************************************************************)

EmployeeCounts == {10, 100, 101, 500, 501}

ScoredResponses ==
    {Response(Prospect("acme", "retail", e), l, d) :
        e \in EmployeeCounts, l \in 0..3, d \in BOOLEAN}

\* weights 0, 0.3, 0.4 and 1
WeightValues == {0, 90, 120, One}

ScoreRules ==
    {[_default_rules EXCEPT !.weights =
        [interest_level |-> a, company_size |-> b, decision_maker |-> c]] :
        a \in WeightValues, b \in WeightValues, c \in WeightValues}

RouterRules ==
    {_default_rules,
     [_default_rules EXCEPT !.weights =
        [interest_level |-> One, company_size |-> One, decision_maker |-> One]]}

ResponsePool ==
    {Response(Prospect("acme", "retail", 10), InterestLevel.NONE, FALSE),
     Response(Prospect("globex", "retail", 600), InterestLevel.HIGH, TRUE),
     Response(Prospect("initech", "hospitality", 600), InterestLevel.HIGH, FALSE),
     Response(Prospect("hooli", "retail", 10), InterestLevel.LOW, TRUE)}

ResponseLists == UNION {[1..n -> ResponsePool] : n \in 0..MaxResponses}

\* thresholds 0, 0.05, 0.09, 0.1 and 0.7
MinimumScores == {0, 15, 27, 30, 210}

CriteriaPool ==
    {[interest_level |-> "high", decision_maker |-> TRUE]} \cup
    {[minimum_score |-> m, interest_level |-> "high", decision_maker |-> TRUE] :
        m \in MinimumScores}

\* leads handed to initiate_sequence: a complete one, one of an industry
\* without a template, and one as LeadRouter._prepare_lead_data builds it
LeadPool ==
    {[company_name |-> "acme", email |-> "cfo@acme", industry |-> "retail",
      employee_count |-> 60, platform |-> "linkedin"],
     [company_name |-> "medix", email |-> "it@medix", industry |-> "healthcare",
      employee_count |-> 700, platform |-> "linkedin"],
     _prepare_lead_data(
        Response(Prospect("initech", "hospitality", 600), InterestLevel.HIGH, FALSE))}

SequenceTypes == {"high_intent", "medium_intent", "low_intent"}

\* the lead and the tiers of each of two calls that run at the same time
ConcurrentLead ==
    [a |-> [company_name |-> "acme", email |-> "cfo@acme", industry |-> "retail",
            employee_count |-> 60, platform |-> "linkedin"],
     b |-> [company_name |-> "tyrell", email |-> "ops@tyrell",
            industry |-> "hospitality", employee_count |-> 250,
            platform |-> "twitter"]]

ConcurrentTypes ==
    [a |-> {"high_intent", "medium_intent"}, b |-> {"low_intent"}]

Rep(c, n) == [i \in 1..n |-> c]

\* n times the word "a" followed by a run of two blanks
Spaced(n) == [i \in 1..(3 * n) |-> IF i % 3 = 1 THEN "a" ELSE " "]

Link == <<"h", "t", "t", "p", ":", "/", "/", "x">>

\* texts the text generation may return: short with stray white space; of
\* 280 and of 281 characters; longer than 280 only by its white space; with a
\* link, short, just within 280, and cut through by the truncation
TextPool ==
    <<(<<"\n", "a", " ", " ", "b", "\t">>),
      Rep("a", 280),
      Rep("a", 281),
      Spaced(100),
      Link,
      Rep("a", 271) \o <<" ">> \o Link,
      Rep("a", 275) \o Link>>

\* the lists of n choices: the pool, started at each of its texts
ChoiceLists(n) ==
    {[i \in 1..n |-> TextPool[((i + r) % Len(TextPool)) + 1]] :
        r \in 0..(Len(TextPool) - 1)}

\* content mappings: more pieces on the first platform, more on the second,
\* a platform without an entry, a platform with an empty list
ContentPool ==
    {[linkedin |-> <<"l1", "l2">>, twitter |-> <<"t1">>],
     [linkedin |-> <<"l1">>, twitter |-> <<"t1", "t2">>],
     [linkedin |-> <<"l1">>],
     [linkedin |-> <<>>, twitter |-> <<"t1">>]}

PlatformLists == {<<"linkedin", "twitter">>, <<"twitter">>, <<"linkedin">>}

\* schedule_times: none, one time, two times
ScheduleTimesPool == {<<>>, <<10>>, <<10, 20>>}

\* what the polling collected
CollectedPool ==
    {<<>>,
     <<Response(Prospect("globex", "retail", 600), InterestLevel.HIGH, TRUE)>>}

CustomPainPoints == {<<>>, <<"Outdated payment hardware", "Chargeback disputes">>}

Industries == {"retail", "Retail", "healthcare"}

\* the platforms and post_count of main.py, and those of _generate_step_content
PlatformCounts ==
    {<<(<<"linkedin", "twitter">>), 5>>, <<(<<"linkedin">>), 1>>,
     <<(<<"twitter", "linkedin">>), 1>>}

ResponseTypes == {"positive", "negative", "neutral"}

(***************************************************************************)
(* Specifications                                                          *)
(***************************************************************************)
InitWith(rules) ==
    /\ qualification_rules \in rules
    /\ scored = <<>>
    /\ rpc = "idle"
    /\ responses = <<>>
    /\ criteria = [interest_level |-> "high", decision_maker |-> TRUE]
    /\ idx = 1
    /\ qualified_leads = <<>>
    /\ returned = <<>>
    /\ route_trace = <<>>
    /\ crm_contacts = <<>>
    /\ sdr_outbox = <<>>
    /\ log = <<>>
    /\ clock = 0
    /\ organizations = <<>>
    /\ persons = <<>>
    /\ deals = <<>>
    /\ activities = <<>>
    /\ notes = <<>>
    /\ posts = <<>>
    /\ industry_templates = IndustryTemplates
    /\ task = [t \in Tasks |-> IdleTask]
    /\ handler = IdleHandler
    /\ gen = IdleGenerator
    /\ poster = IdlePoster

InitScore == InitWith(ScoreRules)

NextScore == \E r \in ScoredResponses : ScoreResponse(r)

SpecScore == InitScore /\ [][NextScore]_vars

InitRouter == InitWith(RouterRules)

NextRouter ==
    \/ \E rs \in ResponseLists, c \in CriteriaPool : ProcessResponses(rs, c)
    \/ RouterDiscard
    \/ RouterFastTrack
    \/ RouterFastTrackContactFails
    \/ RouterFastTrackReplyFails
    \/ RouterNurture
    \/ RouterReturn

SpecRouter == InitRouter /\ [][NextRouter]_vars

Init == InitWith({_default_rules})

NextContent ==
    \/ \E industry \in Industries, custom_pain_points \in CustomPainPoints,
          pc \in PlatformCounts :
            CreateIndustryPosts(industry, custom_pain_points, pc[1], pc[2])
    \/ \E choices \in ChoiceLists(gen.post_count) :
          GeneratePlatformSpecificContent(choices)
    \/ GenerationFails

\* two initiate_sequence calls for different leads, interleaved at their awaits
NextConcurrent ==
    \E t \in Tasks :
        \/ \E sequence_type \in ConcurrentTypes[t] :
              InitiateSequence(t, ConcurrentLead[t], sequence_type)
        \/ CreateOrganization(t)
        \/ CreatePerson(t)
        \/ CreateDeal(t)
        \/ CreateActivity(t)
        \/ GenerateContent(t)
        \/ SchedulePosts(t)
        \/ MonitorResponses(t)
        \/ AddNote(t)
        \/ CallFails(t)

SpecConcurrent == Init /\ [][NextConcurrent]_vars

SpecContent == Init /\ [][NextContent]_vars

NextPoster ==
    \/ \E content \in ContentPool, platforms \in PlatformLists,
          monitoring \in BOOLEAN, schedule_times \in ScheduleTimesPool :
            SchedulePostsCall(content, platforms, monitoring, schedule_times)
    \/ SchedulePost
    \/ \E collected \in CollectedPool : PosterMonitorResponses(collected)
    \/ PosterCallFails

SpecPoster == Init /\ [][NextPoster]_vars

NextInitiate(t) ==
    \/ \E lead_data \in LeadPool, sequence_type \in SequenceTypes :
          InitiateSequence(t, lead_data, sequence_type)
    \/ CreateOrganization(t)
    \/ CreatePerson(t)
    \/ CreateDeal(t)
    \/ CreateActivity(t)
    \/ GenerateContent(t)
    \/ SchedulePosts(t)
    \/ MonitorResponses(t)
    \/ AddNote(t)
    \/ CallFails(t)

NextHandler ==
    \/ \E deal_id \in 1..Len(deals), response_type \in ResponseTypes :
          HandleSequenceResponse(deal_id, response_type, "reply")
    \/ HandlerAddNote
    \/ HandlerCreateActivity
    \/ HandlerCallFails

Next == NextInitiate("a") \/ NextHandler \/ Tick

Spec == Init /\ [][Next]_vars

(***************************************************************************)
(* Properties of the scorer (SpecScore)                                    *)
(***************************************************************************)
\* C1: every score _score_response returns lies between 0 and 1, and it is
\* exactly 1 whenever the weighted sum exceeds 1.
C1_ScoreInUnitInterval ==
    \A k \in 1..Len(scored) :
        /\ 0 <= scored[k].score
        /\ scored[k].score <= One
        /\ SumScore(qualification_rules, scored[k].response) > One
              => scored[k].score = One

\* a score that the clamp cut down to 1
C1_ClampedScoreReached ==
    /\ Len(scored) = 1
    /\ SumScore(qualification_rules, scored[1].response) > One
    /\ scored[1].score = One

\* C3: a response that differs from the scored one only by a higher
\* interest_level, or only by is_decision_maker being true, never scores lower.
C3_ScoreMonotone ==
    \A k \in 1..Len(scored) : \A r \in ScoredResponses :
        LET q == scored[k].response
        IN  /\ ( /\ r = [q EXCEPT !.interest_level = r.interest_level]
                 /\ r.interest_level >= q.interest_level )
                  => _score_response(qualification_rules, r) >= scored[k].score
            /\ ( /\ r = [q EXCEPT !.is_decision_maker = TRUE]
                 /\ ~q.is_decision_maker )
                  => _score_response(qualification_rules, r) >= scored[k].score

\* a scored response that a higher interest level and the decision-maker flag
\* both lift strictly
C3_StrictlyHigherReached ==
    /\ Len(scored) = 1
    /\ scored[1].response.interest_level = InterestLevel.LOW
    /\ ~scored[1].response.is_decision_maker
    /\ _score_response(qualification_rules,
          [scored[1].response EXCEPT !.interest_level = InterestLevel.HIGH])
          > scored[1].score
    /\ _score_response(qualification_rules,
          [scored[1].response EXCEPT !.is_decision_maker = TRUE])
          > scored[1].score

(***************************************************************************)
(* Properties of process_responses (SpecRouter)                            *)
(***************************************************************************)
InSeq(x, s) == \E j \in 1..Len(s) : s[j] = x

\* the methods the router invoked for the response at position k
RoutedBy(k) == {route_trace[j][2] : j \in {i \in 1..Len(route_trace) :
                                              route_trace[i][1] = k}}

ScoreAt(k) == _score_response(qualification_rules, responses[k])

QualifiedAt(k) == ScoreAt(k) >= MinimumScore(criteria)

IsQualified(r) == _score_response(qualification_rules, r) >= MinimumScore(criteria)

\* the lead records of the qualified responses among the first n, in input order
QualifiedLeads(n) ==
    LET q == SelectSeq(SubSeq(responses, 1, n), IsQualified)
    IN  [i \in 1..Len(q) |-> _prepare_lead_data(q[i])]

IsFastTrack(r) == IsQualified(r) /\ r.is_decision_maker

\* the lead records of the qualified decision makers among the first n
FastTrackLeads(n) ==
    LET q == SelectSeq(SubSeq(responses, 1, n), IsFastTrack)
    IN  [i \in 1..Len(q) |-> _prepare_lead_data(q[i])]

\* interest NONE, 10 employees, no decision maker
ColdResponse == Response(Prospect("acme", "retail", 10), InterestLevel.NONE, FALSE)

ColdPositions == {k \in 1..Len(responses) : responses[k] = ColdResponse}

\* C2 as stated: under the default rules the cold response scores 0.0 and is
\* rejected for every minimum_score above 0.
C2_ColdScoresZero ==
    (qualification_rules = _default_rules /\ rpc # "idle")
        => \A k \in ColdPositions :
              /\ ScoreAt(k) = 0
              /\ (MinimumScore(criteria) > 0 /\ k < idx)
                    => /\ RoutedBy(k) = {}
                       /\ ~InSeq(_prepare_lead_data(ColdResponse), qualified_leads)

\* C2, amended: under the default rules the cold response scores 0.09 (the
\* small-company tier 0.3 of the weight 0.3) and is rejected, with no routing
\* and no entry in the returned list, for every minimum_score above 0.09; for
\* a minimum_score up to 0.09 it qualifies and takes the nurture path.
C2_ColdScoresNineHundredths ==
    (qualification_rules = _default_rules /\ rpc # "idle")
        => \A k \in ColdPositions :
              /\ ScoreAt(k) = (9 * One) \div 100
              /\ (MinimumScore(criteria) > (9 * One) \div 100 /\ k < idx)
                    => /\ RoutedBy(k) = {}
                       /\ ~InSeq(_prepare_lead_data(ColdResponse), qualified_leads)
                       /\ \A j \in 1..Len(returned) :
                             ~InSeq(_prepare_lead_data(ColdResponse), returned[j])
              /\ (MinimumScore(criteria) <= (9 * One) \div 100 /\ k < idx)
                    => /\ RoutedBy(k) = {"_initiate_nurture_sequence"}
                       /\ InSeq(_prepare_lead_data(ColdResponse), qualified_leads)

\* a call with threshold 0.1 returned another lead and dropped the cold response
C2_ColdRejectedReached ==
    /\ qualification_rules = _default_rules
    /\ rpc = "returned"
    /\ MinimumScore(criteria) = One \div 10
    /\ ColdPositions # {}
    /\ Len(returned[1]) >= 1

\* a nurture sequence was started for the lead
NurtureStartedFor(lead_data) ==
    \E t \in Tasks : task[t].pc # "idle" /\ task[t].lead_data = lead_data

\* C4: after a call that returned, every response took exactly one path:
\* discarded without any collaborator call when below the threshold; through
\* _route_to_sdr (contact and notification) when a qualified decision maker; and
\* handed to a nurture sequence that is actually started otherwise.  The list
\* returned holds the leads of the qualified responses in input order.
C4_ExactlyOnePath ==
    rpc = "returned"
        => /\ \A k \in 1..Len(responses) :
                LET lead_data == _prepare_lead_data(responses[k])
                IN  /\ ~QualifiedAt(k) => RoutedBy(k) = {}
                    /\ (QualifiedAt(k) /\ responses[k].is_decision_maker)
                          => /\ RoutedBy(k) =
                                   {"_route_to_sdr", "_send_sdr_notification"}
                             /\ InSeq(lead_data, crm_contacts)
                    /\ (QualifiedAt(k) /\ ~responses[k].is_decision_maker)
                          => /\ RoutedBy(k) = {"_initiate_nurture_sequence"}
                             /\ NurtureStartedFor(lead_data)
           /\ returned = <<QualifiedLeads(Len(responses))>>

\* every record posted to the CRM
CrmWrites ==
    Len(crm_contacts) + Len(organizations) + Len(persons) + Len(deals)
        + Len(activities) + Len(notes)

NotificationCalls ==
    Cardinality({j \in 1..Len(route_trace) :
                    route_trace[j][2] = "_send_sdr_notification"})

\* C5: after a call that returned (no collaborator failed) there is one CRM
\* write per qualified lead and one notification call per fast-track lead.
C5_OneWritePerQualifiedLead ==
    rpc = "returned"
        => /\ CrmWrites = Len(QualifiedLeads(Len(responses)))
           /\ NotificationCalls = Len(FastTrackLeads(Len(responses)))

\* C6: a collaborator failure at position idx is logged and ends the call: the
\* call raises exactly when an error was logged, nothing is returned although
\* leads were accumulated, no response after idx is routed, and the contacts
\* created for the earlier responses are all still there.
C6_FailureAbortsCall ==
    /\ (rpc = "raised") <=> (Len(log) > 0)
    /\ rpc = "raised"
          => /\ log = <<"Error routing lead to SDR">>
             /\ returned = <<>>
             /\ idx <= Len(responses)
             /\ \A j \in 1..Len(route_trace) : route_trace[j][1] <= idx
             /\ qualified_leads = QualifiedLeads(idx - 1)
             /\ SubSeq(crm_contacts, 1, Len(FastTrackLeads(idx - 1)))
                   = FastTrackLeads(idx - 1)
             /\ Len(crm_contacts) <= Len(FastTrackLeads(idx - 1)) + 1

\* the second response failed after the first was routed and accumulated
C6_LateFailureReached ==
    /\ rpc = "raised"
    /\ idx = 2
    /\ Len(qualified_leads) = 1
    /\ Len(crm_contacts) = 1
    /\ returned = <<>>

(***************************************************************************)
(* Properties of the nurture sequences (Spec)                              *)
(***************************************************************************)
IsStepActivity(a) == a.subject[1] = "Nurture Step"

IsStepNote(n) == n.content[1] = "Scheduled"

\* the step activities, the step notes and the posts of a deal, in CRM order
StepActivities(deal_id) ==
    LET Mine(a) == a.deal_id = deal_id /\ IsStepActivity(a)
    IN  SelectSeq(activities, Mine)

StepNotes(deal_id) ==
    LET Mine(n) == n.deal_id = deal_id /\ IsStepNote(n)
    IN  SelectSeq(notes, Mine)

PostsOf(deal_id) ==
    LET Mine(p) == p.deal_id = deal_id
    IN  SelectSeq(posts, Mine)

\* the minute an activity is due, counted from the start of the clock
DueMinute(a) == a.due_date * (24 * 60) + a.due_time

\* the step types and the delays in days of each tier, as the specification
\* lists them
ExpectedTypes ==
    [high_intent |-> <<"personalized_content", "case_study", "demo_invitation">>,
     medium_intent |-> <<"educational_content", "social_proof", "value_proposition">>,
     low_intent |-> <<"thought_leadership", "educational_content", "soft_pitch">>]

ExpectedDays ==
    [high_intent |-> <<1, 3, 7>>,
     medium_intent |-> <<2, 5, 10>>,
     low_intent |-> <<3, 7, 14>>]

IsDelivered(type) ==
    type \in {"personalized_content", "case_study", "educational_content"}

\* the external calls of one step, in the order of _schedule_step
ExpectedStepCalls(type, i) ==
    <<(<<"create_activity", i>>), (<<"generate_content", i>>)>>
    \o (IF IsDelivered(type)
        THEN <<(<<"schedule_posts", i>>), (<<"monitor_responses", i>>)>>
        ELSE <<>>)
    \o <<(<<"add_note", i>>)>>

\* the external calls of a whole initiate_sequence of a tier
ExpectedCalls(tier) ==
    <<(<<"create_organization", 0>>), (<<"create_person", 0>>),
      (<<"create_deal", 0>>)>>
    \o ExpectedStepCalls(ExpectedTypes[tier][1], 1)
    \o ExpectedStepCalls(ExpectedTypes[tier][2], 2)
    \o ExpectedStepCalls(ExpectedTypes[tier][3], 3)

\* C7: a call that returned has scheduled exactly the three steps of its tier,
\* in template order and once each, every execution time being one reference
\* time (read between the start of the call and now) plus the tier's delay of
\* 1, 3, 7 / 2, 5, 10 / 3, 7, 14 days; the activities carry that time to the
\* minute; and no call of a later step precedes a call of an earlier one.
C7_TierStepsScheduled ==
    \A t \in Tasks :
        task[t].pc = "returned"
            => LET tk == task[t]
                   acts == StepActivities(tk.deal_id)
                   ns == StepNotes(tk.deal_id)
                   days == ExpectedDays[tk.sequence_type]
                   ref == ns[1].content[3] - Days(days[1])
               IN  /\ Len(acts) = 3
                   /\ Len(ns) = 3
                   /\ 0 <= ref /\ ref <= clock
                   /\ \A i \in 1..3 :
                         /\ acts[i].type = ExpectedTypes[tk.sequence_type][i]
                         /\ ns[i].content[2] = ExpectedTypes[tk.sequence_type][i]
                         /\ ns[i].content[3] = ref + Days(days[i])
                         /\ DueMinute(acts[i]) = (ref + Days(days[i])) \div 2
                   /\ \A j \in 1..Len(PostsOf(tk.deal_id)) :
                         \E i \in 1..3 :
                            PostsOf(tk.deal_id)[j].schedule_time = ref + Days(days[i])
                   /\ \A j, k \in 1..Len(tk.calls) :
                         j < k => tk.calls[j][2] <= tk.calls[k][2]
                   /\ tk.result = <<tk.deal_id>>

\* a high_intent sequence returned, the clock having moved on during the call
C7_SequenceReturnedReached ==
    /\ task["a"].pc = "returned"
    /\ task["a"].sequence_type = "high_intent"
    /\ task["a"].current_time = 1
    /\ clock > task["a"].current_time + Hours(48)

\* C8: the step of handle_sequence_response that ends a 'negative' call creates
\* exactly one activity, of type 'review', for the call's deal, due 48 hours
\* after the clock reading it takes (no earlier than 48 hours after the call
\* began), and no step of the call creates, changes or removes a step
\* activity, a post or a step note.
C8_NegativeCreatesOneReview ==
    [][ (handler.response_type = "negative" /\ handler' # handler
            /\ handler.pc \in {"add_note", "create_activity"})
        => /\ posts' = posts
           /\ task' = task
           /\ SubSeq(notes', 1, Len(notes)) = notes
           /\ \A d \in 1..Len(deals) :
                 /\ StepActivities(d)' = StepActivities(d)
                 /\ StepNotes(d)' = StepNotes(d)
           /\ handler'.pc = "returned"
                 => /\ handler.pc = "create_activity"
                    /\ Len(activities') = Len(activities) + 1
                    /\ SubSeq(activities', 1, Len(activities)) = activities
                    /\ LET a == activities'[Len(activities')]
                       IN  /\ a.type = "review"
                           /\ a.deal_id = handler.deal_id
                           /\ DueMinute(a) = (clock + Hours(48)) \div 2
                           /\ DueMinute(a) >= (handler.called_at + Hours(48)) \div 2
           /\ handler'.pc # "returned" => activities' = activities
      ]_vars

\* a 'negative' call returned for a deal that already had a step scheduled
C8_ReviewCreatedReached ==
    /\ handler.pc = "returned"
    /\ handler.response_type = "negative"
    /\ Len(StepActivities(handler.deal_id)) >= 1
    /\ \E j \in 1..Len(activities) :
          activities[j].type = "review" /\ activities[j].deal_id = handler.deal_id

\* C9 (its pause clause): once a 'negative' response has been handled for a
\* deal (its review activity exists) no further step of that deal's sequence
\* is executed: no step activity follows the review in the CRM.
C9_NoStepAfterNegative ==
    \A i, j \in 1..Len(activities) :
        ( /\ i < j
          /\ activities[i].type = "review"
          /\ activities[j].deal_id = activities[i].deal_id )
            => ~IsStepActivity(activities[j])

IsPrefix(s, u) == Len(s) <= Len(u) /\ SubSeq(u, 1, Len(s)) = s

CountCalls(tk, name) ==
    Cardinality({j \in 1..Len(tk.calls) :
                    tk.calls[j][1] = name /\ tk.calls[j][3] = "ok"})

\* C10: the external calls of a sequence are made in the order create
\* activity, generate content, deliver (delivered step types only), add note,
\* step after step; only the last call can have failed, and then the call has
\* raised, returned nothing and logged the error; no call is made twice; and
\* the CRM and the poster hold exactly what the calls that succeeded created.
C10_StepActionsInOrder ==
    \A t \in Tasks :
        task[t].pc # "idle"
            => LET tk == task[t]
                   made == [j \in 1..Len(tk.calls) |->
                               <<tk.calls[j][1], tk.calls[j][2]>>]
               IN  /\ IsPrefix(made, ExpectedCalls(tk.sequence_type))
                   /\ \A j \in 1..Len(tk.calls) :
                         tk.calls[j][3] = "raised"
                            <=> (j = Len(tk.calls) /\ tk.pc = "raised")
                   /\ tk.pc = "raised"
                         => /\ tk.result = <<>>
                            /\ Len(tk.calls) >= 1
                            /\ Len(log) >= 1
                            /\ \E j \in 1..Len(log) :
                                  log[j] = "Error initiating nurture sequence"
                   /\ tk.pc = "returned"
                         => made = ExpectedCalls(tk.sequence_type)
                   /\ tk.deal_id > 0
                         => /\ Len(StepActivities(tk.deal_id))
                                  = CountCalls(tk, "create_activity")
                            /\ Len(PostsOf(tk.deal_id))
                                  = CountCalls(tk, "schedule_posts")
                            /\ Len(StepNotes(tk.deal_id))
                                  = CountCalls(tk, "add_note")

\* the delivery of the second step failed: its note was never added
C10_DeliveryFailedReached ==
    /\ task["a"].pc = "raised"
    /\ task["a"].calls[Len(task["a"].calls)] = <<"schedule_posts", 2, "raised">>
    /\ Len(StepActivities(task["a"].deal_id)) = 2
    /\ Len(StepNotes(task["a"].deal_id)) = 1

\* C11: within one initiate_sequence call no external call (by name and step)
\* is made twice; a call that fails is the last one: the error is logged and
\* re-raised, no id is returned, the task makes no further call; and no step
\* of the system ever removes or changes a record already in the CRM or a post
\* already handed to the poster.
C11_AtMostOnceNoRollback ==
    [][ /\ IsPrefix(organizations, organizations')
        /\ IsPrefix(persons, persons')
        /\ IsPrefix(deals, deals')
        /\ IsPrefix(activities, activities')
        /\ IsPrefix(notes, notes')
        /\ IsPrefix(posts, posts')
        /\ \A t \in Tasks :
              LET tk == task'[t]
              IN  /\ \A j, k \in 1..Len(tk.calls) :
                        (tk.calls[j][1] = tk.calls[k][1]
                            /\ tk.calls[j][2] = tk.calls[k][2]) => j = k
                  /\ task[t].pc = "raised" => tk = task[t]
                  /\ (task[t].pc # "raised" /\ tk.pc = "raised")
                        => /\ tk.calls = Append(task[t].calls,
                                              <<task[t].pc, task[t].step, "raised">>)
                           /\ tk.result = <<>>
                           /\ Len(log') > Len(log)
                           /\ log'[Len(log')] = "Error initiating nurture sequence"
                           /\ UNCHANGED <<crmVars, posts>>
      ]_vars

\* the second step's activity failed after the organization, the person, the
\* deal and the whole first step had been created: all of them are still there
C11_FailedAfterPartialWorkReached ==
    /\ task["a"].pc = "raised"
    /\ task["a"].calls[Len(task["a"].calls)] = <<"create_activity", 2, "raised">>
    /\ task["a"].sequence_type = "high_intent"
    /\ Len(organizations) = 1 /\ Len(persons) = 1 /\ Len(deals) = 1
    /\ Len(StepActivities(task["a"].deal_id)) = 1
    /\ Len(PostsOf(task["a"].deal_id)) = 1
    /\ Len(StepNotes(task["a"].deal_id)) = 1
    /\ task["a"].result = <<>>

\* C13: handle_sequence_response first adds one note carrying the response
\* type and the raw response, before any activity; if that fails nothing more
\* is created and the error is logged and raised; a response that is neither
\* positive nor negative then returns without any activity; a positive one
\* then creates exactly one 'follow_up' activity for the deal, due 24 hours
\* after the clock reading it takes (no earlier than 24 hours after the call
\* began).
C13_NoteFirstThenActivity ==
    [][ (handler' # handler /\ handler.pc \in {"add_note", "create_activity"})
        => /\ handler.pc = "add_note"
                 => /\ handler.calls = <<>>
                    /\ activities' = activities
                    /\ handler'.pc # "raised"
                          => notes' = Append(notes,
                                add_note(handler.deal_id,
                                         <<"Sequence Response", handler.response_type,
                                           handler.response_content>>))
                    /\ handler'.pc = "raised"
                          => /\ notes' = notes
                             /\ Len(log') > Len(log)
                             /\ log'[Len(log')] = "Error handling sequence response"
                    /\ (handler.response_type \notin {"positive", "negative"}
                            /\ handler'.pc # "raised")
                          => handler'.pc = "returned"
                    /\ (handler.response_type \in {"positive", "negative"}
                            /\ handler'.pc # "raised")
                          => handler'.pc = "create_activity"
           /\ handler.pc = "create_activity"
                 => /\ handler.calls = <<(<<"add_note", "ok">>)>>
                    /\ handler.response_type \in {"positive", "negative"}
                    /\ notes' = notes
                    /\ handler'.pc = "raised" => activities' = activities
                    /\ (handler.response_type = "positive"
                            /\ handler'.pc = "returned")
                          => /\ Len(activities') = Len(activities) + 1
                             /\ SubSeq(activities', 1, Len(activities)) = activities
                             /\ LET a == activities'[Len(activities')]
                                IN  /\ a.type = "follow_up"
                                    /\ a.deal_id = handler.deal_id
                                    /\ DueMinute(a) = (clock + Hours(24)) \div 2
                                    /\ DueMinute(a) >=
                                          (handler.called_at + Hours(24)) \div 2
      ]_vars

\* a 'positive' call returned: its note and its follow-up are in the CRM
C13_FollowUpCreatedReached ==
    /\ handler.pc = "returned"
    /\ handler.response_type = "positive"
    /\ handler.calls = <<(<<"add_note", "ok">>), (<<"create_activity", "ok">>)>>
    /\ \E j \in 1..Len(notes) :
          notes[j] = add_note(handler.deal_id,
                              <<"Sequence Response", "positive", "reply">>)
    /\ Cardinality({j \in 1..Len(activities) :
                       activities[j].type = "follow_up"
                           /\ activities[j].deal_id = handler.deal_id}) = 1

\* the steps of each tier whose content goes through the social poster
ExpectedPostSteps ==
    [high_intent |-> <<1, 2>>, medium_intent |-> <<1>>, low_intent |-> <<2>>]

\* the steps for which the task has called schedule_posts, in call order
PosterCalls(tk) ==
    LET IsPosterCall(c) == c[1] = "schedule_posts"
        made == SelectSeq(tk.calls, IsPosterCall)
    IN  [j \in 1..Len(made) |-> made[j][2]]

\* the steps whose note has been added, i.e. the steps that are complete
CompletedSteps(tk) ==
    {tk.calls[j][2] : j \in {i \in 1..Len(tk.calls) :
                                 tk.calls[i][1] = "add_note"
                                    /\ tk.calls[i][3] = "ok"}}

\* C14: a sequence calls the social poster exactly once for each step of
\* type personalized_content, case_study or educational_content (steps 1 and
\* 2 of high_intent, step 1 of medium_intent, step 2 of low_intent) and for
\* no other step; each call hands over one content item, on linkedin only,
\* scheduled at that step's execution time.
C14_OnePostPerDeliveredStep ==
    /\ \A j \in 1..Len(posts) : posts[j].platform = "linkedin"
    /\ \A t \in Tasks :
          task[t].pc # "idle" /\ task[t].sequence_type \in SequenceTypes
            => LET tk == task[t]
                   steps == ExpectedPostSteps[tk.sequence_type]
                   mine == PostsOf(tk.deal_id)
               IN  /\ IsPrefix(PosterCalls(tk), steps)
                   /\ \A i \in CompletedSteps(tk) :
                         InSeq(i, steps) => InSeq(i, PosterCalls(tk))
                   /\ tk.pc = "returned" => PosterCalls(tk) = steps
                   /\ Len(mine) = CountCalls(tk, "schedule_posts")
                   /\ \A j \in 1..Len(mine) :
                         /\ mine[j].schedule_time = tk.current_time
                               + Days(ExpectedDays[tk.sequence_type][steps[j]])
                         /\ mine[j].content =
                               [industry |-> tk.lead_data.industry,
                                platform |-> "linkedin",
                                pain_points |->
                                    IndustryTemplates[tk.lead_data.industry]
                                        .pain_points]

\* a low_intent sequence returned: its only post is that of step 2, 7 days out
C14_LowIntentPostedReached ==
    /\ task["a"].pc = "returned"
    /\ task["a"].sequence_type = "low_intent"
    /\ Len(PostsOf(task["a"].deal_id)) = 1
    /\ PostsOf(task["a"].deal_id)[1].schedule_time
          = task["a"].current_time + Days(7)
    /\ Len(posts) = 1

\* the lead records the router can build
RouterLeads == {_prepare_lead_data(r) : r \in ResponsePool}

\* C16: a lead built by _prepare_lead_data has the fields initiate_sequence
\* and the CRM client read without a default: a call started with such a lead
\* fails before its deal exists only if a CRM request failed.
C16_RouterLeadReachesDeal ==
    \A t \in Tasks :
        ( /\ task[t].pc = "raised"
          /\ task[t].deal_id = 0
          /\ task[t].lead_data \in RouterLeads )
            => InSeq("Pipedrive API error", log)

\* C17: initiate_sequence never enters the poster's response-monitoring
\* loop: after a delivery the note follows without a monitoring window.
C17_NoMonitoringInInitiate ==
    \A t \in Tasks :
        /\ task[t].pc # "monitor_responses"
        /\ \A j \in 1..Len(task[t].calls) :
              task[t].calls[j][1] # "monitor_responses"

(***************************************************************************)
(* Properties of two concurrent sequences (SpecConcurrent)                 *)
(***************************************************************************)
\* the number of steps for which the task has made the call, successfully
StepsDone(tk, name) == CountCalls(tk, name)

\* C15: while two initiate_sequence calls for different leads interleave,
\* each call's organization, person and deal are built from its own lead and
\* ids, the two deals differ, every step activity, post and step note in the
\* CRM belongs to one of the two deals and carries that call's own tier step,
\* execution time and industry, in the tier's order, a call that returns
\* returns its own deal id, and the generator's templates are left alone.
C15_ConcurrentCallsIndependent ==
    /\ industry_templates = IndustryTemplates
    /\ (task["a"].deal_id > 0 /\ task["b"].deal_id > 0)
          => /\ task["a"].deal_id # task["b"].deal_id
             /\ task["a"].org_id # task["b"].org_id
             /\ task["a"].person_id # task["b"].person_id
    /\ \A j \in 1..Len(activities) :
          \E t \in Tasks : task[t].deal_id = activities[j].deal_id
    /\ \A j \in 1..Len(notes) :
          \E t \in Tasks : task[t].deal_id = notes[j].deal_id
    /\ \A j \in 1..Len(posts) :
          \E t \in Tasks : task[t].deal_id = posts[j].deal_id
    /\ \A t \in Tasks :
          LET tk == task[t]
              types == ExpectedTypes[tk.sequence_type]
              days == ExpectedDays[tk.sequence_type]
              acts == StepActivities(tk.deal_id)
              ns == StepNotes(tk.deal_id)
              mine == PostsOf(tk.deal_id)
          IN  /\ tk.org_id > 0
                    => organizations[tk.org_id] = create_organization(tk.lead_data)
              /\ tk.person_id > 0
                    => persons[tk.person_id] =
                          create_person(WithOrganization(tk.lead_data, tk.org_id))
              /\ tk.deal_id > 0
                    => /\ deals[tk.deal_id] =
                             create_deal(tk.lead_data, tk.person_id, tk.org_id)
                       /\ Len(acts) = StepsDone(tk, "create_activity")
                       /\ Len(ns) = StepsDone(tk, "add_note")
                       /\ Len(mine) = StepsDone(tk, "schedule_posts")
                       /\ \A i \in 1..Len(acts) :
                             /\ acts[i].type = types[i]
                             /\ DueMinute(acts[i]) =
                                   (tk.current_time + Days(days[i])) \div 2
                       /\ \A i \in 1..Len(ns) :
                             ns[i].content =
                                <<"Scheduled", types[i],
                                  tk.current_time + Days(days[i])>>
                       /\ \A i \in 1..Len(mine) :
                             /\ mine[i].content.industry = tk.lead_data.industry
                             /\ mine[i].schedule_time = tk.current_time
                                   + Days(days[ExpectedPostSteps[tk.sequence_type][i]])
              /\ tk.pc = "returned" => tk.result = <<tk.deal_id>>
              /\ tk.pc # "returned" => tk.result = <<>>

\* both calls returned; the second to create its deal was the first to
\* schedule a step
C15_InterleavedReturnedReached ==
    /\ task["a"].pc = "returned"
    /\ task["b"].pc = "returned"
    /\ task["a"].deal_id = 1
    /\ task["b"].deal_id = 2
    /\ activities[1].deal_id = 2
    /\ notes[1].deal_id = 1

(***************************************************************************)
(* Properties of create_industry_posts (SpecContent)                       *)
(***************************************************************************)
\* the platforms a generated mapping has entries for
Keys(generated_content) ==
    {generated_content[j].platform : j \in 1..Len(generated_content)}

\* the call of main.py's generate_campaign_content
IsCampaignCall ==
    /\ gen.industry = "retail"
    /\ Len(gen.custom_pain_points) = 2
    /\ gen.platforms = <<"linkedin", "twitter">>
    /\ gen.post_count = 5

\* C12: the campaign call (retail, two custom pain points, linkedin and
\* twitter, post_count 5), once it has returned, yields a mapping with exactly
\* the keys linkedin and twitter, five entries under each, and every twitter
\* entry at most 280 characters long.
C12_TwitterWithinLimit ==
    (gen.pc = "returned" /\ IsCampaignCall)
        => LET content == gen.result[1]
           IN  /\ Len(content) = 2
               /\ Keys(content) = {"linkedin", "twitter"}
               /\ \A j \in 1..Len(content) :
                     /\ Len(content[j].posts) = 5
                     /\ content[j].platform = "twitter"
                           => \A k \in 1..5 : Len(content[j].posts[k]) <= 280

\* C19: create_industry_posts leaves the templates as __init__ set them, and
\* the pain points it hands to the text generation are the industry's default
\* ones followed by the call's custom ones.
C19_TemplatesUnchanged ==
    /\ industry_templates = IndustryTemplates
    /\ gen.pc = "acreate"
          => gen.pain_points =
                IndustryTemplates[Lower(gen.industry)].pain_points
                    \o gen.custom_pain_points

(***************************************************************************)
(* Properties of schedule_posts (SpecPoster)                               *)
(***************************************************************************)
\* what the call handed to _schedule_post for a platform, in order
PostedOn(platform) ==
    LET Mine(post) == post.platform = platform
    IN  SelectSeq(poster.posted_content, Mine)

\* C18: once the posting loop of schedule_posts is over, every requested
\* platform has had each of its content pieces handed to _schedule_post
\* exactly once, in order, and, when the caller gave no schedule_times, with
\* the schedule generated for that platform and that number of pieces.
C18_EveryPiecePostedOnce ==
    poster.pc \in {"monitor_responses", "returned"}
        => \A k \in 1..Len(poster.platforms) :
              LET platform == poster.platforms[k]
                  platform_content == Get(poster.content, platform, <<>>)
                  posted == PostedOn(platform)
              IN  /\ Len(posted) = Len(platform_content)
                  /\ \A i \in 1..Len(posted) :
                        /\ posted[i].content = platform_content[i]
                        /\ Len(poster.given_times) = 0
                              => posted[i].schedule_time =
                                    _generate_optimal_schedule(
                                        Len(platform_content), platform)[i]

====
